---- MODULE Spec2Model ----
(***************************************************************************)
(* Dolpyitcs analytics server (src/server.py): the /collect and            *)
(* /api/analytics handlers over the Prisma store.                          *)
(*                                                                         *)
(* Time is counted in hours.  A Python None / missing dict key is NULL for *)
(* strings and the empty tuple <<>> for optional numbers and payloads (a   *)
(* present value v is <<v>>).  The results of the database client are      *)
(* modelled as the code reads them: group_by rows carry the group's key    *)
(* and a _count of the rows whose counted column is not null, in the order *)
(* the ORDER BY fixes and in any order where it fixes none.                *)
(***************************************************************************)
EXTENDS Integers, Sequences, FiniteSets, TLC

VARIABLES
    events,      \* table Event: the rows db.event.create has stored, in id order
    perfRows,    \* table PagePerformance
    errorRows,   \* table Error
    visitors,    \* table Visitor: visitorId -> record
    sessions,    \* table Session: sessionId -> record
    metrics,     \* the process-wide metrics dict
    now,         \* what utc_now() returns; it moves in SpecBurst only
    resp,        \* the response of the last HTTP request
    report,      \* the get_analytics call suspended at an await, if any
    saving       \* the save_event calls suspended at an await: request -> call

vars == <<events, perfRows, errorRows, visitors, sessions, metrics, now, resp,
          report, saving>>

-----------------------------------------------------------------------------
(* Bounds of the model *)

MaxEvents == 2      \* rows of the Event table
MaxRequests == 3    \* HTTP requests served
BurstEvents == 21   \* rows of the Event table in a burst of pageviews
EventCap == 1       \* the cap of 100,000 stored events, scaled to the model's store

-----------------------------------------------------------------------------
(* Values *)

NULL == "<None>"

Truthy(s) == s # NULL /\ s # ""

\* Python's `x or d` on an optional string
OrDefault(s, d) == IF Truthy(s) THEN s ELSE d

\* Python's dict.get(key, d) on a key that may be missing
GetDefault(s, d) == IF s = NULL THEN d ELSE s

Min(a, b) == IF a <= b THEN a ELSE b

\* Python's s[:n]
Prefix(s, n) == SubSeq(s, 1, Min(Len(s), n))

RECURSIVE SumSeq(_)
SumSeq(s) == IF s = <<>> THEN 0 ELSE Head(s) + SumSeq(Tail(s))

-----------------------------------------------------------------------------
(* The time ranges of get_analytics *)

Delta24h == 24
Delta7d == 7 * 24
Delta30d == 30 * 24

KnownRanges == {"24h", "7d", "30d", "all"}

\* ranges[token]; <<>> is the None of 'all'
RangesTable(token) ==
    CASE token = "24h" -> <<Delta24h>>
      [] token = "7d" -> <<Delta7d>>
      [] token = "30d" -> <<Delta30d>>
      [] token = "all" -> <<>>

RangeDelta30(token) ==
    IF token \in KnownRanges THEN RangesTable(token) ELSE RangesTable("30d")

\* ranges.get(time_range, ranges['7d'])
RangeDelta(token) ==
    IF token \in KnownRanges THEN RangesTable(token) ELSE RangesTable("7d")

\* start_time = (now - range_delta) if range_delta else None
StartTime(token, t) ==
    IF RangeDelta(token) = <<>> THEN <<>> ELSE <<t - RangeDelta(token)[1]>>

-----------------------------------------------------------------------------
(* The request bodies the clients send to /collect *)

\* the clock of the run
T0 == Delta30d + 1

Iso(t) == [kind |-> "iso", t |-> t]         \* an ISO-8601 string for instant t
TsBad == [kind |-> "bad", t |-> 0]          \* a string fromisoformat rejects
TsAbsent == [kind |-> "absent", t |-> 0]    \* no timestamp key

NoNumber == <<>>

Perf(plt, dcl, fb) ==
    <<[pageLoadTime |-> plt, domContentLoaded |-> dcl, firstByte |-> fb]>>

\* an event dict with no key at all
Empty ==
    [eventType |-> NULL, visitorId |-> NULL, sessionId |-> NULL,
     timestamp |-> TsAbsent, path |-> NULL, hostname |-> NULL,
     referrer |-> NULL, browser |-> NULL, os |-> NULL, deviceType |-> NULL,
     timezone |-> NULL, performance |-> <<>>, message |-> NULL,
     maxScrollDepth |-> NoNumber, timeOnPage |-> NoNumber,
     elementText |-> NULL, elementId |-> NULL, href |-> NULL]

Ids == [Empty EXCEPT !.visitorId = "vis_abc123", !.sessionId = "sess_xyz789",
                     !.timestamp = Iso(T0)]

Pageview ==
    [Ids EXCEPT !.eventType = "pageview", !.path = "/page1",
                !.hostname = "example.com",
                !.referrer = "https://google.com/search",
                !.browser = "Chrome", !.os = "Windows",
                !.deviceType = "Desktop", !.timezone = "America/New_York"]

PageviewInputs ==
    {Pageview,
     [Pageview EXCEPT !.visitorId = "vis_integration_test",
                      !.sessionId = "sess_different", !.path = "/page2",
                      !.hostname = "other.org", !.referrer = "direct",
                      !.browser = "Firefox", !.deviceType = "Mobile",
                      !.timestamp = Iso(T0 - Delta24h)],
     [Pageview EXCEPT !.path = "/", !.referrer = "https://google.com",
                      !.timestamp = Iso(T0 - Delta7d)],
     [Pageview EXCEPT !.visitorId = "", !.sessionId = "", !.referrer = "",
                      !.timestamp = Iso(T0 - Delta30d)],
     \* test_malformed_timestamp and test_missing_fields
     [Empty EXCEPT !.eventType = "pageview", !.visitorId = "vis_123",
                   !.timestamp = TsBad],
     [Empty EXCEPT !.eventType = "pageview", !.timestamp = Iso(T0)]}

OtherInputs ==
    {[Ids EXCEPT !.eventType = "click", !.elementId = "submit-btn",
                 !.elementText = "Submit Form"],
     [Ids EXCEPT !.eventType = "scroll_depth", !.maxScrollDepth = <<75>>,
                 !.timestamp = TsAbsent],
     [Ids EXCEPT !.eventType = "time_on_page", !.timeOnPage = <<120>>,
                 !.timestamp = Iso(T0 - Delta7d - 1)],
     [Ids EXCEPT !.eventType = "performance", !.hostname = "example.com",
                 !.performance = Perf(<<1500>>, <<800>>, <<200>>)],
     [Ids EXCEPT !.eventType = "performance", !.hostname = "other.org",
                 !.performance = Perf(<<1201>>, <<605>>, NoNumber),
                 !.timestamp = Iso(T0 - Delta24h - 1)],
     [Ids EXCEPT !.eventType = "performance"],
     [Ids EXCEPT !.eventType = "error", !.hostname = "example.com",
                 !.message = "TypeError: Cannot read property of undefined"],
     [Ids EXCEPT !.eventType = "error", !.hostname = "other.org",
                 !.timestamp = Iso(T0 - Delta30d - 1)],
     [Empty EXCEPT !.timestamp = Iso(T0)]}

EventInputs == PageviewInputs \cup OtherInputs

\* what request.json() makes of the body of a POST /collect
Bodies ==
    [json : {"object"}, event : EventInputs]
        \cup {[json |-> "invalid", event |-> Empty],
              [json |-> "array", event |-> Empty]}

-----------------------------------------------------------------------------
(* save_event *)

\* datetime.fromisoformat(timestamp.replace('Z', '+00:00')), or utc_now()
ParseTimestamp(ts, t) == IF ts.kind = "iso" THEN ts.t ELSE t

\* the row db.event.create stores
EventRow(d, id, t) ==
    [id |-> id,
     eventType |-> GetDefault(d.eventType, "unknown"),
     visitorId |-> GetDefault(d.visitorId, ""),
     sessionId |-> GetDefault(d.sessionId, ""),
     timestamp |-> ParseTimestamp(d.timestamp, t),
     path |-> d.path, hostname |-> d.hostname, referrer |-> d.referrer,
     browser |-> d.browser, os |-> d.os, deviceType |-> d.deviceType,
     timezone |-> d.timezone,
     data |-> d]

VisitorUpsertNoIncrement(tbl, d, t) ==
    LET key == GetDefault(d.visitorId, "")
    IN  IF key \in DOMAIN tbl
        THEN [tbl EXCEPT ![key] = [@ EXCEPT !.lastSeen = <<t>>]]
        ELSE tbl @@ (key :> [visitorId |-> key, lastSeen |-> <<>>,
                             totalEvents |-> 1])

\* db.visitor.upsert
VisitorUpsert(tbl, d, t) ==
    LET key == GetDefault(d.visitorId, "")
    IN  IF key \in DOMAIN tbl
        THEN [tbl EXCEPT ![key] = [@ EXCEPT !.lastSeen = <<t>>,
                                            !.totalEvents = @ + 1]]
        ELSE tbl @@ (key :> [visitorId |-> key, lastSeen |-> <<>>,
                             totalEvents |-> 1])

PageviewIncrement(d) == IF d.eventType = "pageview" THEN 1 ELSE 0

\* db.session.upsert
SessionUpsert(tbl, d, t) ==
    LET key == GetDefault(d.sessionId, "")
    IN  IF key \in DOMAIN tbl
        THEN [tbl EXCEPT ![key] = [@ EXCEPT !.endedAt = <<t>>,
                                            !.exitPage = d.path,
                                            !.pageviews = @ + PageviewIncrement(d),
                                            !.events = @ + 1]]
        ELSE tbl @@ (key :> [sessionId |-> key,
                             visitorId |-> GetDefault(d.visitorId, ""),
                             entryPage |-> d.path, exitPage |-> NULL,
                             endedAt |-> <<>>,
                             browser |-> d.browser, os |-> d.os,
                             deviceType |-> d.deviceType,
                             pageviews |-> PageviewIncrement(d),
                             events |-> 1])

\* if event_data.get("eventType") == "performance" and event_data.get("performance")
HasPerformance(d) == d.eventType = "performance" /\ d.performance # <<>>

\* the row db.pageperformance.create stores
PerfRow(d, id, t) ==
    [eventId |-> id,
     path |-> GetDefault(d.path, "/"),
     timestamp |-> ParseTimestamp(d.timestamp, t),
     pageLoadTime |-> d.performance[1].pageLoadTime,
     domContentLoaded |-> d.performance[1].domContentLoaded,
     firstByte |-> d.performance[1].firstByte]

IsError(d) == d.eventType = "error"

\* the row db.error.create stores
ErrorRow(d, id, t) ==
    [eventId |-> id,
     visitorId |-> GetDefault(d.visitorId, ""),
     sessionId |-> GetDefault(d.sessionId, ""),
     timestamp |-> ParseTimestamp(d.timestamp, t),
     message |-> GetDefault(d.message, "Unknown error"),
     path |-> d.path]

\* The store operations of save_event in program order; a failure point names
\* the operation that raises ("none": no operation raises).
StoreOps(d) ==
    <<"event", "visitor", "session">>
        \o (IF HasPerformance(d) THEN <<"perf">> ELSE <<>>)
        \o (IF IsError(d) THEN <<"error">> ELSE <<>>)

FailurePoints(d) == {"none"} \cup {StoreOps(d)[i] : i \in 1..Len(StoreOps(d))}

\* op has completed when save_event stops at failure point fp
Completed(d, op, fp) ==
    \E i \in 1..Len(StoreOps(d)) :
        /\ StoreOps(d)[i] = op
        /\ \/ fp = "none"
           \/ \E j \in 1..Len(StoreOps(d)) : StoreOps(d)[j] = fp /\ i < j

\* save_event(event_data), stopping where fp says
SaveEvent(d, fp) ==
    LET id == Len(events) + 1
    IN  /\ events' = IF Completed(d, "event", fp)
                     THEN Append(events, EventRow(d, id, now)) ELSE events
        /\ visitors' = IF Completed(d, "visitor", fp)
                       THEN VisitorUpsert(visitors, d, now) ELSE visitors
        /\ sessions' = IF Completed(d, "session", fp)
                       THEN SessionUpsert(sessions, d, now) ELSE sessions
        /\ perfRows' = IF Completed(d, "perf", fp)
                       THEN Append(perfRows, PerfRow(d, id, now)) ELSE perfRows
        /\ errorRows' = IF Completed(d, "error", fp)
                        THEN Append(errorRows, ErrorRow(d, id, now)) ELSE errorRows

-----------------------------------------------------------------------------
(* The queries of get_analytics *)

WhereNoHostname(start, hostname) ==
    [start |-> start, hostname |-> NULL, eventType |-> NULL]

\* where = {}; timestamp gte start_time if start_time; hostname if hostname
Where(start, hostname) ==
    [start |-> start,
     hostname |-> IF Truthy(hostname) THEN hostname ELSE NULL,
     eventType |-> NULL]

\* {**where, "eventType": "pageview"}
PageviewWhere(w) == [w EXCEPT !.eventType = "pageview"]

\* {"timestamp": {"gte": start_time}} if start_time else {}
TimeWhere(start) == [start |-> start, hostname |-> NULL, eventType |-> NULL]

SinceGt(row, start) == start = <<>> \/ row.timestamp > start[1]

\* {"timestamp": {"gte": start}}, or no condition when start is None
Since(row, start) == start = <<>> \/ row.timestamp >= start[1]

\* a row of the Event table satisfies the where clause
Matches(row, w) ==
    /\ Since(row, w.start)
    /\ w.hostname = NULL \/ row.hostname = w.hostname
    /\ w.eventType = NULL \/ row.eventType = w.eventType

\* the rows of a table a where clause selects, in table order
Select(tbl, w) == SelectSeq(tbl, LAMBDA row : Matches(row, w))

SelectSince(tbl, start) == SelectSeq(tbl, LAMBDA row : Since(row, start))

\* db.event.count(where=...)
Count(tbl, w) == Len(Select(tbl, w))

Values(rows, column) == {rows[i][column] : i \in 1..Len(rows)}

\* len(db.event.find_many(where=where, distinct=[column])): one row per value
\* of the column, the empty string included
Distinct(tbl, w, column) == Cardinality(Values(Select(tbl, w), column))

\* _count={column: True}: the rows of the group whose column is not null
GroupCount(rows, column, key) ==
    IF key = NULL THEN 0
    ELSE Cardinality({i \in 1..Len(rows) : rows[i][column] = key})

\* The database fixes no order among rows that the ORDER BY leaves tied: one
\* report is answered in an arbitrary scan order of the Event rows, a ranking
\* of their ids.
ScanOrders(n) ==
    {f \in [1..n -> 1..n] : \A i, j \in 1..n : i # j => f[i] # f[j]}

MinOf(S) == CHOOSE x \in S : \A y \in S : x <= y

\* the orders a query can return the rows of S in
Orderings(S) ==
    {f \in [1..Cardinality(S) -> S] :
        \A i, j \in 1..Cardinality(S) : i # j => f[i] # f[j]}

\* Python's list[:n], the `take` of a query
Take(s, n) == SubSeq(s, 1, Min(Len(s), n))

\* db.<table>.group_by(by=[column], count={column: True},
\*                     order={"_count": {column: "desc"}}) over the rows
GroupBy(rows, column, idcol, scan) ==
    LET groups ==
            {[key |-> k,
              count |-> GroupCount(rows, column, k),
              rank |-> MinOf({scan[rows[i][idcol]] :
                                 i \in {j \in 1..Len(rows) : rows[j][column] = k}})]
                : k \in Values(rows, column)}
        sorted == CHOOSE f \in Orderings(groups) :
                      \A i, j \in 1..Len(f) :
                          i < j => \/ f[i].count > f[j].count
                                   \/ f[i].count = f[j].count /\ f[i].rank < f[j].rank
    IN  [i \in 1..Len(sorted) |-> [key |-> sorted[i].key, count |-> sorted[i].count]]

\* db.event.find_many(where=where, order={"timestamp": "desc"})
\* (the newest row first, rows of one timestamp in scan order, then the rest)
RECURSIVE NewestFirst(_, _)
NewestFirst(rows, scan) ==
    IF rows = <<>> THEN <<>>
    ELSE LET first == CHOOSE i \in 1..Len(rows) :
                          \A j \in 1..Len(rows) :
                              j # i => \/ rows[i].timestamp > rows[j].timestamp
                                       \/ /\ rows[i].timestamp = rows[j].timestamp
                                          /\ scan[rows[i].id] < scan[rows[j].id]
             rest == [k \in 1..(Len(rows) - 1) |->
                         IF k < first THEN rows[k] ELSE rows[k + 1]]
         IN  <<rows[first]>> \o NewestFirst(rest, scan)

\* Python's round(): to the nearest integer, a half to the even one
Round(sum, n) ==
    LET q == sum \div n
        r == sum % n
    IN  IF 2 * r < n THEN q
        ELSE IF 2 * r > n THEN q + 1
        ELSE IF q % 2 = 0 THEN q ELSE q + 1

\* _avg of a column: None over no value, else the mean (as sum and count)
Present(rows, column) ==
    SelectSeq([i \in 1..Len(rows) |-> rows[i][column]], LAMBDA v : v # <<>>)

\* round(getattr(avg_obj, column, None) or 0)
RoundedAvg(rows, column) ==
    LET vals == Present(rows, column)
    IN  IF vals = <<>> THEN 0
        ELSE Round(SumSeq([i \in 1..Len(vals) |-> vals[i][1]]), Len(vals))

-----------------------------------------------------------------------------
(* get_analytics *)

TopPagesTake == 10
TopReferrersTake == 10
RecentEventsTake == 20
TopErrorsTake == 5
MessageChars == 100
VisitorIdChars == 10

\* [{"page": p.path or "/", "views": p._count["path"]} for p in top_pages_raw]
TopPages(rows, scan) ==
    LET raw == Take(GroupBy(rows, "path", "id", scan), TopPagesTake)
    IN  [i \in 1..Len(raw) |->
            [page |-> OrDefault(raw[i].key, "/"), views |-> raw[i].count]]

\* browsers, devices and operating systems: no take
Breakdown(rows, column, scan) ==
    LET raw == GroupBy(rows, column, "id", scan)
    IN  [i \in 1..Len(raw) |->
            [label |-> OrDefault(raw[i].key, "Unknown"), count |-> raw[i].count]]

\* [{"referrer": r.referrer or "direct", "count": ...} for r in referrers_raw]
TopReferrers(rows, scan) ==
    LET raw == Take(GroupBy(rows, "referrer", "id", scan), TopReferrersTake)
    IN  [i \in 1..Len(raw) |->
            [referrer |-> OrDefault(raw[i].key, "direct"), count |-> raw[i].count]]

RecentEventsUncapped(rows, scan) ==
    LET raw == NewestFirst(rows, scan)
    IN  [i \in 1..Len(raw) |->
            [type |-> raw[i].eventType,
             path |-> raw[i].path,
             timestamp |-> raw[i].timestamp,
             visitorId |-> IF Truthy(raw[i].visitorId)
                           THEN Prefix(raw[i].visitorId, VisitorIdChars) ELSE "",
             browser |-> raw[i].browser,
             device |-> raw[i].deviceType]]

\* the projection of the 20 newest rows
RecentEvents(rows, scan) ==
    LET raw == Take(NewestFirst(rows, scan), RecentEventsTake)
    IN  [i \in 1..Len(raw) |->
            [type |-> raw[i].eventType,
             path |-> raw[i].path,
             timestamp |-> raw[i].timestamp,
             visitorId |-> IF Truthy(raw[i].visitorId)
                           THEN Prefix(raw[i].visitorId, VisitorIdChars) ELSE "",
             browser |-> raw[i].browser,
             device |-> raw[i].deviceType]]

\* perf_data._avg is an object whatever the rows are, so avg_performance is
\* never None: <<r>> is the dict r
AvgPerformance(rows) ==
    <<[pageLoadTime |-> RoundedAvg(rows, "pageLoadTime"),
       domContentLoaded |-> RoundedAvg(rows, "domContentLoaded"),
       firstByte |-> RoundedAvg(rows, "firstByte")]>>

TopErrorsCutFirst(rows, scan) ==
    LET cut == [i \in 1..Len(rows) |->
                   [rows[i] EXCEPT !.message = Prefix(@, MessageChars)]]
        raw == Take(GroupBy(cut, "message", "eventId", scan), TopErrorsTake)
    IN  [i \in 1..Len(raw) |-> [message |-> raw[i].key, count |-> raw[i].count]]

\* [{"message": (e.message or "")[:100], "count": ...} for e in errors_raw]
TopErrors(rows, scan) ==
    LET raw == Take(GroupBy(rows, "message", "eventId", scan), TopErrorsTake)
    IN  [i \in 1..Len(raw) |->
            [message |-> Prefix(OrDefault(raw[i].key, ""), MessageChars),
             count |-> raw[i].count]]

\* the dict get_analytics(time_range, hostname) returns at instant t when every
\* query succeeds
Report(time_range, hostname, t, scan) ==
    LET start == StartTime(time_range, t)
        where == Where(start, hostname)
        views == Select(events, PageviewWhere(where))
    IN  [summary |->
            [totalPageviews |-> Count(events, PageviewWhere(where)),
             uniqueVisitors |-> Distinct(events, where, "visitorId"),
             uniqueSessions |-> Distinct(events, where, "sessionId"),
             totalEvents |-> Count(events, where),
             avgTimeOnPage |-> 0,
             avgScrollDepth |-> 0],
         topPages |-> TopPages(views, scan),
         topReferrers |-> TopReferrers(views, scan),
         browsers |-> Breakdown(views, "browser", scan),
         operatingSystems |-> Breakdown(views, "os", scan),
         devices |-> Breakdown(views, "deviceType", scan),
         timezones |-> <<>>,
         viewsOverTime |-> <<>>,
         topClicks |-> <<>>,
         topErrors |-> TopErrors(SelectSince(errorRows, TimeWhere(start).start), scan),
         avgPerformance |-> AvgPerformance(SelectSince(perfRows, TimeWhere(start).start)),
         recentEvents |-> RecentEvents(Select(events, where), scan)]

-----------------------------------------------------------------------------
(* The HTTP handlers; log_requests counts every request *)

Bump(m, counter) == [m EXCEPT ![counter] = @ + 1]

ErrorResponseGeneric(exception) ==
    [status |-> 500, error |-> "Failed to save event"]

\* the except clauses of collect_event: json.JSONDecodeError, then Exception
ErrorResponse(exception) ==
    IF exception = "JSONDecodeError"
    THEN [status |-> 400, error |-> "Invalid JSON"]
    ELSE [status |-> 500, error |-> "Failed to save event"]

\* POST /collect; the response is kept with the kind of body it answers
CollectEvent(body, fp) ==
    /\ UNCHANGED <<now, report, saving>>
    /\ CASE body.json = "invalid" ->
              \* request.json() raises json.JSONDecodeError
              /\ metrics' = Bump(Bump(metrics, "requests_total"), "errors_total")
              /\ resp' = [kind |-> "collect", json |-> body.json,
                          status |-> ErrorResponse("JSONDecodeError").status,
                          body |-> [error |-> ErrorResponse("JSONDecodeError").error]]
              /\ UNCHANGED <<events, perfRows, errorRows, visitors, sessions>>
         [] body.json = "array" ->
              \* event['ip'] = ... raises TypeError
              /\ metrics' = Bump(Bump(metrics, "requests_total"), "errors_total")
              /\ resp' = [kind |-> "collect", json |-> body.json,
                          status |-> ErrorResponse("TypeError").status,
                          body |-> [error |-> ErrorResponse("TypeError").error]]
              /\ UNCHANGED <<events, perfRows, errorRows, visitors, sessions>>
         [] body.json = "object" ->
              /\ fp \in FailurePoints(body.event)
              /\ SaveEvent(body.event, fp)
              /\ IF fp = "none"
                 THEN /\ metrics' = Bump(Bump(Bump(metrics, "requests_total"),
                                              "db_queries"), "events_collected")
                      /\ resp' = [kind |-> "collect", json |-> body.json,
                                  status |-> 200,
                                  body |-> [success |-> TRUE,
                                            eventId |-> Len(events) + 1]]
                 ELSE /\ metrics' = Bump(Bump(Bump(metrics, "requests_total"),
                                              "db_queries"), "errors_total")
                      /\ resp' = [kind |-> "collect", json |-> body.json,
                                  status |-> ErrorResponse("PrismaError").status,
                                  body |-> [error |-> ErrorResponse("PrismaError").error]]

RangeInputs == KnownRanges \cup {"1y", NULL}

HostnameInputs == {NULL, "", "example.com"}

\* the store queries of get_analytics, in program order
Queries ==
    <<"count_pageviews", "distinct_visitors", "distinct_sessions", "top_pages",
      "browsers", "devices", "operating_systems", "referrers", "recent_events",
      "performance", "errors", "count_events">>

\* the query that raises: 0 for none, else its position in Queries
FailAts == 0..Len(Queries)

IssuedRetried(failAt) ==
    IF failAt = 0 THEN Queries
    ELSE SubSeq(Queries, 1, failAt) \o <<Queries[failAt]>>

\* the queries a call has awaited when it returns or raises: every await is
\* written once and an exception leaves the function
Issued(failAt) ==
    IF failAt = 0 THEN Queries ELSE SubSeq(Queries, 1, failAt)

AnalyticsEndpointPartial(range, hostname, scan, failAt) ==
    /\ metrics' = Bump(Bump(metrics, "requests_total"), "db_queries")
    /\ resp' = [kind |-> "report", status |-> 200,
                range |-> range, hostname |-> hostname, at |-> now,
                failedAt |-> failAt, issued |-> Issued(failAt),
                body |-> IF failAt = 0
                         THEN Report(GetDefault(range, "7d"), hostname, now, scan)
                         ELSE [summary |->
                                  Report(GetDefault(range, "7d"), hostname, now,
                                         scan).summary]]
    /\ UNCHANGED <<events, perfRows, errorRows, visitors, sessions, now,
                   report, saving>>

\* GET /api/analytics?range=..&hostname=..; a missing range is the Query
\* default "7d".  An exception of get_analytics becomes HTTPException(500).
AnalyticsEndpoint(range, hostname, scan, failAt) ==
    /\ metrics' = Bump(Bump(metrics, "requests_total"), "db_queries")
    /\ resp' = IF failAt = 0
               THEN [kind |-> "report", status |-> 200,
                     range |-> range, hostname |-> hostname, at |-> now,
                     failedAt |-> failAt, issued |-> Issued(failAt),
                     body |-> Report(GetDefault(range, "7d"), hostname, now, scan)]
               ELSE [kind |-> "failure", status |-> 500,
                     failedAt |-> failAt, issued |-> Issued(failAt),
                     body |-> [detail |-> "Failed to fetch analytics"]]
    /\ UNCHANGED <<events, perfRows, errorRows, visitors, sessions, now,
                   report, saving>>

Init ==
    /\ events = <<>>
    /\ perfRows = <<>>
    /\ errorRows = <<>>
    /\ visitors = <<>>
    /\ sessions = <<>>
    /\ metrics = [requests_total |-> 0, events_collected |-> 0,
                  errors_total |-> 0, db_queries |-> 0]
    /\ now = T0
    /\ resp = [kind |-> "none", status |-> 0]
    /\ report = <<>>
    /\ saving = <<>>

Collect ==
    /\ metrics.requests_total < MaxRequests
    /\ \E body \in Bodies :
           /\ body.json = "object" => Len(events) < MaxEvents
           /\ CollectEvent(body, "none")

Analytics ==
    /\ metrics.requests_total < MaxRequests
    /\ \E range \in RangeInputs, hostname \in HostnameInputs,
          scan \in ScanOrders(Len(events)) :
           AnalyticsEndpoint(range, hostname, scan, 0)

\* a report one of whose queries raises: the response is the same whatever
\* the range, the hostname and the order of the rows
AnalyticsFails ==
    /\ metrics.requests_total < MaxRequests
    /\ \E failAt \in FailAts \ {0} :
           AnalyticsEndpoint(NULL, NULL, <<>>, failAt)

Next == Collect \/ Analytics \/ AnalyticsFails

Spec == Init /\ [][Next]_vars

\* Error reports: a message of exactly MessageChars characters, two longer
\* ones that differ only after it, and the message of sample_error_event
Stem ==
    "TypeError: Cannot read property 'length' of undefined at Object.render (https://example.com/s/app.js"

ErrorInputs ==
    {[Ids EXCEPT !.eventType = "error", !.message = Stem],
     [Ids EXCEPT !.eventType = "error", !.message = Stem \o ":1:2041)"],
     [Ids EXCEPT !.eventType = "error", !.message = Stem \o ":1:977)",
                 !.timestamp = Iso(T0 - Delta24h - 1)],
     [Ids EXCEPT !.eventType = "error",
                 !.message = "TypeError: Cannot read property of undefined"]}

CollectError ==
    /\ metrics.requests_total < MaxRequests
    /\ Len(events) < MaxEvents
    /\ \E d \in ErrorInputs : CollectEvent([json |-> "object", event |-> d], "none")

ErrorsNext == CollectError \/ Analytics

SpecErrors == Init /\ [][ErrorsNext]_vars

\* A burst of pageviews: one visitor sends more pageviews than recentEvents
\* takes, each stamped by the client's clock, while the clock passes from T0
\* to a day and an hour later; reports are asked for in between.
BurstInput(t) ==
    [Pageview EXCEPT !.visitorId = "vis_integration_test", !.timestamp = Iso(t)]

Burst ==
    /\ metrics.requests_total < BurstEvents + 1
    /\ Len(events) < BurstEvents
    /\ CollectEvent([json |-> "object", event |-> BurstInput(now)], "none")

Tick ==
    /\ now < T0 + Delta24h
    /\ now' = now + Delta24h + 1
    /\ UNCHANGED <<events, perfRows, errorRows, visitors, sessions, metrics, resp,
                   report, saving>>

\* the table scanned in insertion order, or backwards
BurstScans(n) == {[i \in 1..n |-> i], [i \in 1..n |-> n + 1 - i]}

BurstAnalytics ==
    /\ metrics.requests_total < BurstEvents + 1
    /\ \E range \in {"24h", "7d"}, scan \in BurstScans(Len(events)) :
           AnalyticsEndpoint(range, NULL, scan, 0)

BurstNext == Burst \/ Tick \/ BurstAnalytics

SpecBurst == Init /\ [][BurstNext]_vars

-----------------------------------------------------------------------------
(* Concurrent requests: the handlers run on one event loop and every
   `await db...` suspends the call, so the store operations of the calls in
   progress interleave; each store operation is one statement of the
   database and atomic *)

ConcurrentInputs ==
    {Pageview,
     [Pageview EXCEPT !.visitorId = "vis_integration_test",
                      !.sessionId = "sess_different", !.path = "/page2"],
     [Ids EXCEPT !.eventType = "click", !.elementId = "submit-btn",
                 !.elementText = "Submit Form"]}

\* one store operation of save_event; the upserts read utc_now() themselves
StoreOp(op, d, id, t) ==
    /\ events' = IF op = "event" THEN Append(events, EventRow(d, id, t)) ELSE events
    /\ visitors' = IF op = "visitor" THEN VisitorUpsert(visitors, d, now) ELSE visitors
    /\ sessions' = IF op = "session" THEN SessionUpsert(sessions, d, now) ELSE sessions
    /\ perfRows' = IF op = "perf" THEN Append(perfRows, PerfRow(d, id, t)) ELSE perfRows
    /\ errorRows' = IF op = "error" THEN Append(errorRows, ErrorRow(d, id, t))
                    ELSE errorRows

\* POST /collect up to the first await of save_event
SaveBegins(d) ==
    /\ metrics.requests_total < MaxRequests
    /\ Len(events) + Cardinality(DOMAIN saving) < MaxEvents
    /\ saving' = saving @@ ((metrics.requests_total + 1) :>
                                [d |-> d, pc |-> 1, id |-> 0, t |-> now])
    /\ metrics' = Bump(Bump(metrics, "requests_total"), "db_queries")
    /\ UNCHANGED <<events, perfRows, errorRows, visitors, sessions, now, resp, report>>

\* the next store operation of the save_event call of request r; after the
\* last one the call counts the event and collect_event answers
SaveContinues(r) ==
    /\ r \in DOMAIN saving
    /\ LET c == saving[r]
           op == StoreOps(c.d)[c.pc]
           id == IF op = "event" THEN Len(events) + 1 ELSE c.id
       IN  /\ StoreOp(op, c.d, id, c.t)
           /\ IF c.pc = Len(StoreOps(c.d))
              THEN /\ saving' = [k \in DOMAIN saving \ {r} |-> saving[k]]
                   /\ metrics' = Bump(metrics, "events_collected")
                   /\ resp' = [kind |-> "collect", json |-> "object", status |-> 200,
                               body |-> [success |-> TRUE, eventId |-> id]]
              ELSE /\ saving' = [saving EXCEPT ![r] = [@ EXCEPT !.pc = @ + 1,
                                                                !.id = id]]
                   /\ UNCHANGED <<metrics, resp>>
    /\ UNCHANGED <<now, report>>

\* the local each query of get_analytics assigns, in the order of Queries
QueryFields ==
    <<"totalPageviews", "uniqueVisitors", "uniqueSessions", "topPages",
      "browsers", "devices", "operatingSystems", "topReferrers", "recentEvents",
      "avgPerformance", "topErrors", "totalEvents">>

\* the locals of a get_analytics call that ran all its queries at once
Locals(rep) ==
    [totalPageviews |-> rep.summary.totalPageviews,
     uniqueVisitors |-> rep.summary.uniqueVisitors,
     uniqueSessions |-> rep.summary.uniqueSessions,
     totalEvents |-> rep.summary.totalEvents,
     topPages |-> rep.topPages, topReferrers |-> rep.topReferrers,
     browsers |-> rep.browsers, operatingSystems |-> rep.operatingSystems,
     devices |-> rep.devices, recentEvents |-> rep.recentEvents,
     avgPerformance |-> rep.avgPerformance, topErrors |-> rep.topErrors]

\* the dict get_analytics returns from its locals
Assemble(got) ==
    [summary |->
        [totalPageviews |-> got.totalPageviews,
         uniqueVisitors |-> got.uniqueVisitors,
         uniqueSessions |-> got.uniqueSessions,
         totalEvents |-> got.totalEvents,
         avgTimeOnPage |-> 0,
         avgScrollDepth |-> 0],
     topPages |-> got.topPages,
     topReferrers |-> got.topReferrers,
     browsers |-> got.browsers,
     operatingSystems |-> got.operatingSystems,
     devices |-> got.devices,
     timezones |-> <<>>,
     viewsOverTime |-> <<>>,
     topClicks |-> <<>>,
     topErrors |-> got.topErrors,
     avgPerformance |-> got.avgPerformance,
     recentEvents |-> got.recentEvents]

\* GET /api/analytics up to the first await of get_analytics: now is read once
ReportBegins(range, hostname) ==
    /\ metrics.requests_total < MaxRequests
    /\ report = <<>>
    /\ report' = <<[pc |-> 1, range |-> range, hostname |-> hostname, at |-> now,
                    got |-> <<>>]>>
    /\ metrics' = Bump(Bump(metrics, "requests_total"), "db_queries")
    /\ UNCHANGED <<events, perfRows, errorRows, visitors, sessions, now, resp, saving>>

\* the next query of the get_analytics call, answered from the store as it is
\* now; after the last one the call returns
ReportContinues(scan) ==
    /\ report # <<>>
    /\ LET c == report[1]
           field == QueryFields[c.pc]
           answer == Locals(Report(GetDefault(c.range, "7d"), c.hostname, c.at,
                                   scan))[field]
           got == (field :> answer) @@ c.got
       IN  IF c.pc = Len(Queries)
           THEN /\ report' = <<>>
                /\ resp' = [kind |-> "report", status |-> 200,
                            range |-> c.range, hostname |-> c.hostname, at |-> c.at,
                            failedAt |-> 0, issued |-> Queries,
                            body |-> Assemble(got)]
           ELSE /\ report' = <<[c EXCEPT !.pc = @ + 1, !.got = got]>>
                /\ UNCHANGED resp
    /\ UNCHANGED <<events, perfRows, errorRows, visitors, sessions, metrics, now,
                   saving>>

Arrives == \E d \in ConcurrentInputs : SaveBegins(d)

Stores == \E r \in DOMAIN saving : SaveContinues(r)

Asks == ReportBegins("7d", NULL)

Queried == \E scan \in ScanOrders(Len(events)) : ReportContinues(scan)

SavesNext == Arrives \/ Stores

SpecSaves == Init /\ [][SavesNext]_vars

ConcurrentNext == Arrives \/ Stores \/ Asks \/ Queried

SpecConcurrent == Init /\ [][ConcurrentNext]_vars

-----------------------------------------------------------------------------
(* Store failures during save_event: any of its store operations may raise *)

FaultInputs ==
    {Pageview,
     [Ids EXCEPT !.eventType = "performance", !.hostname = "example.com",
                 !.performance = Perf(<<1500>>, <<800>>, <<200>>)],
     [Ids EXCEPT !.eventType = "error", !.hostname = "example.com",
                 !.message = "TypeError: Cannot read property of undefined"]}

CollectFaulty ==
    /\ metrics.requests_total < MaxRequests
    /\ Len(events) < MaxEvents
    /\ \E d \in FaultInputs :
           \E fp \in FailurePoints(d) :
               CollectEvent([json |-> "object", event |-> d], fp)

FaultsNext == CollectFaulty \/ Analytics

SpecFaults == Init /\ [][FaultsNext]_vars

-----------------------------------------------------------------------------
(* What the specification expects of a report, stated on the stored events *)

IsReport == resp.kind = "report"

\* the cutoff the range token stands for: <<>> is no cutoff
ExpectedCutoff(range, at) ==
    CASE range = "24h" -> <<at - Delta24h>>
      [] range = "30d" -> <<at - Delta30d>>
      [] range = "all" -> <<>>
      [] OTHER -> <<at - Delta7d>>

HostnameGiven(hostname) == hostname # NULL /\ hostname # ""

PassesCutoff(e, cutoff) == cutoff = <<>> \/ e.timestamp >= cutoff[1]

PassesFilter(e, range, hostname, at) ==
    /\ PassesCutoff(e, ExpectedCutoff(range, at))
    /\ HostnameGiven(hostname) => e.hostname = hostname

\* the filtered sequence of the request the last response answers
Filtered ==
    SelectSeq(events, LAMBDA e : PassesFilter(e, resp.range, resp.hostname, resp.at))

OfType(rows, type) == SelectSeq(rows, LAMBDA e : e.eventType = type)

\* C1: summary.totalEvents of every report equals the number of stored events
\* that pass the range cutoff and the hostname filter, whatever their types.
C1_TotalEvents ==
    IsReport => resp.body.summary.totalEvents = Len(Filtered)

C1_Witness ==
    /\ IsReport
    /\ HostnameGiven(resp.hostname)
    /\ resp.range = "24h"
    /\ Len(events) = MaxEvents
    /\ \E i, j \in 1..Len(events) : events[i].eventType # events[j].eventType
    /\ resp.body.summary.totalEvents = 1

\* C2: uniqueVisitors and uniqueSessions count the distinct non-empty
\* visitorId / sessionId values of the filtered events.
C2_UniqueNonEmpty ==
    IsReport =>
        /\ resp.body.summary.uniqueVisitors =
               Cardinality({Filtered[i].visitorId : i \in 1..Len(Filtered)} \ {""})
        /\ resp.body.summary.uniqueSessions =
               Cardinality({Filtered[i].sessionId : i \in 1..Len(Filtered)} \ {""})

\* the first position in rows of a row whose column carries the label
\* (0: no such row)
FirstSeen(rows, column, default, label) ==
    LET at == {i \in 1..Len(rows) : OrDefault(rows[i][column], default) = label}
    IN  IF at = {} THEN 0 ELSE MinOf(at)

\* a ranked list is sorted by count descending, equal counts in the order of
\* the first event of each group
RankedStable(list, labelOf(_), countOf(_), rows, column, default) ==
    \A i, j \in 1..Len(list) :
        i < j =>
            /\ countOf(list[i]) >= countOf(list[j])
            /\ countOf(list[i]) = countOf(list[j]) =>
                   FirstSeen(rows, column, default, labelOf(list[i]))
                       <= FirstSeen(rows, column, default, labelOf(list[j]))

\* C3: every ranked list respects its cap, is sorted by count descending, and
\* lists groups of equal count in the order of their first event in the
\* filtered sequence.
C3_RankedLists ==
    IsReport =>
        LET r == resp.body
            views == OfType(Filtered, "pageview")
        IN  /\ Len(r.topPages) <= TopPagesTake
            /\ Len(r.topReferrers) <= TopReferrersTake
            /\ Len(r.topErrors) <= TopErrorsTake
            /\ Len(r.topClicks) <= 10
            /\ Len(r.timezones) <= 10
            /\ RankedStable(r.topPages, LAMBDA x : x.page, LAMBDA x : x.views,
                            views, "path", "/")
            /\ RankedStable(r.topReferrers, LAMBDA x : x.referrer,
                            LAMBDA x : x.count, views, "referrer", "direct")
            /\ RankedStable(r.browsers, LAMBDA x : x.label, LAMBDA x : x.count,
                            views, "browser", "Unknown")
            /\ RankedStable(r.operatingSystems, LAMBDA x : x.label,
                            LAMBDA x : x.count, views, "os", "Unknown")
            /\ RankedStable(r.devices, LAMBDA x : x.label, LAMBDA x : x.count,
                            views, "deviceType", "Unknown")

\* the mean the specification rounds: 0 over no value
ExpectedMean(values) ==
    IF values = <<>> THEN 0 ELSE Round(SumSeq(values), Len(values))

\* the numbers a payload field carries over the rows, read with Field
NumbersOf(rows, Field(_)) ==
    LET carrying == SelectSeq(rows, LAMBDA e : Field(e) # <<>>)
    IN  [i \in 1..Len(carrying) |-> Field(carrying[i])[1]]

\* the filtered performance events that carry a performance payload
PerformanceEvents ==
    SelectSeq(OfType(Filtered, "performance"), LAMBDA e : e.data.performance # <<>>)

\* C4: avgPerformance is null when no filtered performance event carries a
\* payload, and otherwise holds the rounded mean of each metric over exactly
\* those events.
C4_AvgPerformance ==
    IsReport =>
        IF PerformanceEvents = <<>>
        THEN resp.body.avgPerformance = <<>>
        ELSE resp.body.avgPerformance =
                 <<[pageLoadTime |->
                        ExpectedMean(NumbersOf(PerformanceEvents,
                            LAMBDA e : e.data.performance[1].pageLoadTime)),
                    domContentLoaded |->
                        ExpectedMean(NumbersOf(PerformanceEvents,
                            LAMBDA e : e.data.performance[1].domContentLoaded)),
                    firstByte |->
                        ExpectedMean(NumbersOf(PerformanceEvents,
                            LAMBDA e : e.data.performance[1].firstByte))]>>

\* C5: 24h, 7d and 30d stand for a cutoff that far before the request, `all`
\* for none; any other token, and a missing one, gives the report of `7d`.
C5_RangeTokens ==
    IsReport =>
        /\ resp.range \in KnownRanges =>
               resp.body.summary.totalEvents = Len(Filtered)
        /\ resp.range \notin KnownRanges =>
               \E scan \in ScanOrders(Len(events)) :
                   resp.body = Report("7d", resp.hostname, resp.at, scan)

C5_Witness ==
    /\ IsReport
    /\ resp.range = "1y"
    /\ \E i \in 1..Len(events) :
           /\ events[i].timestamp < resp.at - Delta7d
           /\ events[i].timestamp >= resp.at - Delta30d
    /\ resp.body.summary.totalEvents = 1
    /\ Len(events) = MaxEvents

\* the stored events at or after the cutoff of the last request
InTime ==
    SelectSeq(events, LAMBDA e : PassesCutoff(e, ExpectedCutoff(resp.range, resp.at)))

\* C6: an event contributes to a report exactly when its timestamp is at or
\* after the cutoff; with `all` every stored event contributes.
C6_CutoffInclusive ==
    IsReport =>
        LET r == resp.body
        IN  /\ \A i \in 1..Len(r.recentEvents) :
                   PassesCutoff(r.recentEvents[i], ExpectedCutoff(resp.range, resp.at))
            /\ ~HostnameGiven(resp.hostname) =>
                   /\ r.summary.totalEvents = Len(InTime)
                   /\ r.summary.totalPageviews = Len(OfType(InTime, "pageview"))
                   /\ Len(r.recentEvents) = Min(Len(InTime), RecentEventsTake)
                   /\ Len(r.topPages) = 0 <=> OfType(InTime, "pageview") = <<>>
                   /\ Len(r.topErrors) = 0 <=> OfType(InTime, "error") = <<>>
                   /\ resp.range = "all" => r.summary.totalEvents = Len(events)

C6_Witness ==
    /\ IsReport
    /\ resp.range = "24h"
    /\ ~HostnameGiven(resp.hostname)
    /\ \E i \in 1..Len(events) : events[i].timestamp = resp.at - Delta24h
    /\ \E i \in 1..Len(events) : events[i].timestamp < resp.at - Delta24h
    /\ resp.body.summary.totalEvents = 1

\* the filtered events whose submitted timestamp parses
ValidlyStamped ==
    SelectSeq(Filtered, LAMBDA e : e.data.timestamp.kind = "iso")

\* C7: an event submitted with an unparseable or missing timestamp is counted
\* in no aggregate of any report, whatever the range.
C7_MalformedExcluded ==
    IsReport =>
        /\ resp.body.summary.totalEvents = Len(ValidlyStamped)
        /\ resp.body.summary.totalPageviews = Len(OfType(ValidlyStamped, "pageview"))
        /\ Len(resp.body.recentEvents) = Min(Len(ValidlyStamped), RecentEventsTake)

\* C8: avgScrollDepth and avgTimeOnPage are the rounded means of
\* maxScrollDepth / timeOnPage over the filtered scroll_depth / time_on_page
\* events carrying the field, 0 over none.
C8_ScalarAverages ==
    IsReport =>
        /\ resp.body.summary.avgScrollDepth =
               ExpectedMean(NumbersOf(OfType(Filtered, "scroll_depth"),
                                      LAMBDA e : e.data.maxScrollDepth))
        /\ resp.body.summary.avgTimeOnPage =
               ExpectedMean(NumbersOf(OfType(Filtered, "time_on_page"),
                                      LAMBDA e : e.data.timeOnPage))

\* the first position at or after `from` where `part` occurs in s (0: nowhere)
Find(s, part, from) ==
    LET at == {i \in from..(Len(s) - Len(part) + 1) :
                  SubSeq(s, i, i + Len(part) - 1) = part}
    IN  IF at = {} THEN 0 ELSE MinOf(at)

\* the host component of a URL, "unknown" when there is none
UrlHost(url) ==
    LET sep == Find(url, "://", 1)
        start == sep + Len("://")
        slash == Find(url, "/", start)
        host == IF sep = 0 THEN ""
                ELSE IF slash = 0 THEN SubSeq(url, start, Len(url))
                ELSE SubSeq(url, start, slash - 1)
    IN  IF host = "" THEN "unknown" ELSE host

\* the group a referrer counts under
NormalizedReferrer(referrer) ==
    IF referrer = NULL \/ referrer = "" \/ referrer = "direct" THEN "direct"
    ELSE UrlHost(referrer)

\* list holds one entry per label of the rows, each with the number of rows
\* of that label
CountsByLabel(list, labelOf(_), countOf(_), rows, Label(_)) ==
    LET labels == {Label(rows[i]) : i \in 1..Len(rows)}
    IN  /\ Len(list) = Cardinality(labels)
        /\ {labelOf(list[i]) : i \in 1..Len(list)} = labels
        /\ \A i \in 1..Len(list) :
               countOf(list[i]) =
                   Cardinality({j \in 1..Len(rows) : Label(rows[j]) = labelOf(list[i])})

\* C9: topReferrers holds one entry per normalized referrer of the filtered
\* pageviews: "direct" for an empty, absent or literal "direct" referrer, the
\* URL's host otherwise, "unknown" without a host.
C9_NormalizedReferrers ==
    IsReport =>
        LET views == OfType(Filtered, "pageview")
            labels == {NormalizedReferrer(views[i].referrer) : i \in 1..Len(views)}
            list == resp.body.topReferrers
        IN  /\ {list[i].referrer : i \in 1..Len(list)} = labels
            /\ Len(list) = Cardinality(labels)

\* C10: topPages holds one entry per path of the filtered pageviews, with the
\* number of those pageviews as views; the views sum to totalPageviews, and no
\* other event type adds to an entry.
C10_TopPages ==
    IsReport =>
        /\ CountsByLabel(resp.body.topPages, LAMBDA x : x.page, LAMBDA x : x.views,
                         OfType(Filtered, "pageview"),
                         LAMBDA e : OrDefault(e.path, "/"))
        /\ SumSeq([i \in 1..Len(resp.body.topPages) |-> resp.body.topPages[i].views])
               = resp.body.summary.totalPageviews

\* the filtered pageviews that carry no value in the column
Lacking(rows, column) == SelectSeq(rows, LAMBDA e : ~Truthy(e[column]))

\* C11: when filtered pageviews lack a dimension field, the breakdown of that
\* dimension holds an entry under the default label ("/" for path, "direct"
\* for referrer, "Unknown" for browser, os and deviceType) that counts at least
\* those pageviews, and no entry of a breakdown has the count 0.
C11_DefaultLabels ==
    IsReport =>
        LET r == resp.body
            views == OfType(Filtered, "pageview")
        IN  /\ Lacking(views, "path") # <<>> =>
                   \E i \in 1..Len(r.topPages) :
                       /\ r.topPages[i].page = "/"
                       /\ r.topPages[i].views >= Len(Lacking(views, "path"))
            /\ Lacking(views, "referrer") # <<>> =>
                   \E i \in 1..Len(r.topReferrers) :
                       /\ r.topReferrers[i].referrer = "direct"
                       /\ r.topReferrers[i].count >= Len(Lacking(views, "referrer"))
            /\ Lacking(views, "browser") # <<>> =>
                   \E i \in 1..Len(r.browsers) :
                       /\ r.browsers[i].label = "Unknown"
                       /\ r.browsers[i].count >= Len(Lacking(views, "browser"))
            /\ Lacking(views, "os") # <<>> =>
                   \E i \in 1..Len(r.operatingSystems) :
                       /\ r.operatingSystems[i].label = "Unknown"
                       /\ r.operatingSystems[i].count >= Len(Lacking(views, "os"))
            /\ Lacking(views, "deviceType") # <<>> =>
                   \E i \in 1..Len(r.devices) :
                       /\ r.devices[i].label = "Unknown"
                       /\ r.devices[i].count >= Len(Lacking(views, "deviceType"))
            /\ \A i \in 1..Len(r.topPages) : r.topPages[i].views > 0
            /\ \A i \in 1..Len(r.topReferrers) : r.topReferrers[i].count > 0
            /\ \A i \in 1..Len(r.browsers) : r.browsers[i].count > 0
            /\ \A i \in 1..Len(r.operatingSystems) : r.operatingSystems[i].count > 0
            /\ \A i \in 1..Len(r.devices) : r.devices[i].count > 0

\* the key a click counts under: the first non-empty of elementText,
\* elementId and href, else "Unknown"
ClickKey(e) ==
    IF Truthy(e.data.elementText) THEN e.data.elementText
    ELSE IF Truthy(e.data.elementId) THEN e.data.elementId
    ELSE IF Truthy(e.data.href) THEN e.data.href
    ELSE "Unknown"

\* C12: topClicks holds one entry per click key of the filtered click events;
\* its clicks is the number of click events with that key and its element is
\* the key cut to 50 characters.
C12_TopClicks ==
    IsReport =>
        LET clicks == OfType(Filtered, "click")
            keys == {ClickKey(clicks[i]) : i \in 1..Len(clicks)}
            list == resp.body.topClicks
        IN  /\ Len(list) = Cardinality(keys)
            /\ \A k \in keys :
                   \E i \in 1..Len(list) :
                       /\ list[i].element = Prefix(k, 50)
                       /\ Len(list[i].element) <= 50
                       /\ list[i].clicks =
                              Cardinality({j \in 1..Len(clicks) : ClickKey(clicks[j]) = k})

\* the message an error event is stored with
MessageOf(e) == GetDefault(e.data.message, "Unknown error")

\* C13: no displayed message of topErrors exceeds 100 characters, and the
\* entries stand for distinct full messages of the filtered error events, each
\* with the number of events of that message and showing its first 100
\* characters: messages that differ only later keep separate entries.
C13_TopErrors ==
    IsReport =>
        LET list == resp.body.topErrors
            errs == OfType(Filtered, "error")
            msgs == {MessageOf(errs[i]) : i \in 1..Len(errs)}
        IN  /\ \A i \in 1..Len(list) : Len(list[i].message) <= 100
            /\ ~HostnameGiven(resp.hostname) =>
                   /\ Len(list) = Min(Cardinality(msgs), 5)
                   /\ \E f \in [1..Len(list) -> msgs] :
                          /\ \A i, j \in 1..Len(list) : i # j => f[i] # f[j]
                          /\ \A i \in 1..Len(list) :
                                 /\ list[i].message = Prefix(f[i], 100)
                                 /\ list[i].count =
                                        Cardinality({j \in 1..Len(errs) :
                                                        MessageOf(errs[j]) = f[i]})

C13_Witness ==
    /\ IsReport
    /\ Len(resp.body.topErrors) = 2
    /\ resp.body.topErrors[1].message = resp.body.topErrors[2].message
    /\ Len(resp.body.topErrors[1].message) = 100
    /\ Len(events) = 2
    /\ Len(events[1].data.message) > 100
    /\ Len(events[2].data.message) > 100
    /\ events[1].data.message # events[2].data.message

\* the UTC calendar date of an instant, as a day number (instants are hours)
DateOf(t) == t \div Delta24h

\* C14: viewsOverTime holds one entry per UTC date of the filtered pageviews
\* with the number of pageviews of that date, dates ascending; its counts sum
\* to totalPageviews, so it is non-empty when a pageview passes the filter.
C14_ViewsOverTime ==
    IsReport =>
        LET views == OfType(Filtered, "pageview")
            dates == {DateOf(views[i].timestamp) : i \in 1..Len(views)}
            list == resp.body.viewsOverTime
        IN  /\ Len(list) = Cardinality(dates)
            /\ \A i \in 1..Len(list) :
                   /\ list[i].date \in dates
                   /\ list[i].count =
                          Cardinality({j \in 1..Len(views) :
                                          DateOf(views[j].timestamp) = list[i].date})
            /\ \A i, j \in 1..Len(list) : i < j => list[i].date < list[j].date
            /\ SumSeq([i \in 1..Len(list) |-> list[i].count])
                   = resp.body.summary.totalPageviews

\* a recentEvents entry is the projection of the event, its visitorId cut
Shows(entry, e) ==
    /\ entry.type = e.eventType
    /\ entry.path = e.path
    /\ entry.timestamp = e.timestamp
    /\ entry.visitorId = Prefix(e.visitorId, 10)
    /\ entry.browser = e.browser
    /\ entry.device = e.deviceType

\* the number of rows stamped t or later
AtOrAfter(rows, t) == Cardinality({i \in 1..Len(rows) : rows[i].timestamp >= t})

\* C15: recentEvents has min(20, number of filtered events) entries, newest
\* first, each the projection of a filtered event with at most 10 characters
\* of its visitorId; no filtered event left out is newer than a listed one.
C15_RecentEvents ==
    IsReport =>
        LET list == resp.body.recentEvents
        IN  /\ Len(list) = Min(20, Len(Filtered))
            /\ \A i, j \in 1..Len(list) :
                   i < j => list[i].timestamp >= list[j].timestamp
            /\ \A i \in 1..Len(list) :
                   /\ Len(list[i].visitorId) <= 10
                   /\ \E k \in 1..Len(Filtered) : Shows(list[i], Filtered[k])
            /\ \A k \in 1..Len(Filtered) :
                   AtOrAfter(list, Filtered[k].timestamp)
                       = Min(Len(list), AtOrAfter(Filtered, Filtered[k].timestamp))

C15_Witness ==
    /\ IsReport
    /\ Len(Filtered) > 20
    /\ Len(resp.body.recentEvents) = 20
    /\ resp.body.recentEvents[1].visitorId = "vis_integr"
    /\ resp.body.recentEvents[1].timestamp > resp.body.recentEvents[20].timestamp
    /\ Filtered[1].timestamp = Filtered[2].timestamp
    /\ Filtered[2].timestamp = resp.body.recentEvents[20].timestamp

\* a step that serves GET /api/analytics, which calls get_analytics once
AnalyticsServed ==
    /\ metrics'.requests_total = metrics.requests_total + 1
    /\ resp'.kind \in {"report", "failure"}

\* C16: a call of get_analytics, successful or failed, changes neither the
\* stored events, the visitor and session records, nor any metrics counter;
\* the request around it adds only the request count of log_requests.
C16_SideEffectFree ==
    [][AnalyticsServed =>
           /\ UNCHANGED <<events, perfRows, errorRows, visitors, sessions>>
           /\ metrics' = Bump(metrics, "requests_total")]_vars

\* the sections of a report
ReportSections ==
    {"summary", "topPages", "topReferrers", "browsers", "operatingSystems",
     "devices", "timezones", "viewsOverTime", "topClicks", "topErrors",
     "avgPerformance", "recentEvents"}

\* C17: when a query of the report fails, the caller gets the error response
\* with none of the report's sections, each query before the failure was
\* issued once and the failed one is not issued again; when none fails the
\* response is the report with all its sections.
C17_FailsAsAWhole ==
    resp.kind \in {"report", "failure"} =>
        IF resp.failedAt # 0
        THEN /\ resp.kind = "failure"
             /\ resp.status = 500
             /\ DOMAIN resp.body \cap ReportSections = {}
             /\ resp.issued = SubSeq(Queries, 1, resp.failedAt)
        ELSE /\ resp.kind = "report"
             /\ resp.status = 200
             /\ DOMAIN resp.body = ReportSections
             /\ resp.issued = Queries

C17_Witness ==
    /\ resp.kind = "failure"
    /\ resp.failedAt = 4
    /\ resp.status = 500
    /\ Len(events) = MaxEvents
    /\ \E i \in 1..Len(events) : events[i].eventType = "pageview"

\* C18: a report over no filtered event is complete: its four counts and two
\* scalar averages are 0, every list is empty and avgPerformance is null.
C18_EmptyReport ==
    IsReport /\ Filtered = <<>> =>
        LET r == resp.body
        IN  /\ DOMAIN r = ReportSections
            /\ r.summary = [totalPageviews |-> 0, uniqueVisitors |-> 0,
                            uniqueSessions |-> 0, totalEvents |-> 0,
                            avgTimeOnPage |-> 0, avgScrollDepth |-> 0]
            /\ \A s \in ReportSections \ {"summary", "avgPerformance"} : r[s] = <<>>
            /\ r.avgPerformance = <<>>

\* the lists alone: violated as well, by the errors of another hostname that
\* topErrors counts whatever the hostname filter is
EmptyReportLists ==
    IsReport /\ Filtered = <<>> =>
        \A s \in ReportSections \ {"summary", "avgPerformance"} : resp.body[s] = <<>>

\* C19: the store never holds more than the cap of events (EventCap stands
\* for the 100,000 of the claim: save_event has no branch on the number of
\* rows, so the model's store passes any cap as it passes this one).
C19_EventCap == Len(events) <= EventCap

\* a step that serves a POST /collect whose body is not valid JSON
InvalidJsonPosted ==
    /\ metrics'.requests_total = metrics.requests_total + 1
    /\ resp'.kind = "collect"
    /\ resp'.json = "invalid"

\* C20: a POST /collect with a body that is not valid JSON is answered 400,
\* changes no stored event, visitor or session, adds one to errors_total and
\* leaves events_collected as it was.
C20_InvalidJson ==
    [][InvalidJsonPosted =>
           /\ resp'.status = 400
           /\ UNCHANGED <<events, perfRows, errorRows, visitors, sessions>>
           /\ metrics'.errors_total = metrics.errors_total + 1
           /\ metrics'.events_collected = metrics.events_collected]_vars

C20_Witness ==
    /\ resp.kind = "collect"
    /\ resp.json = "invalid"
    /\ resp.status = 400
    /\ metrics.errors_total = 1
    /\ metrics.events_collected = 1
    /\ Len(events) = 1
    /\ DOMAIN visitors = {events[1].visitorId}
    /\ DOMAIN sessions = {events[1].sessionId}

\* the averages of the performance payloads of the rows
MeansOf(rows) ==
    [pageLoadTime |->
         ExpectedMean(NumbersOf(rows, LAMBDA e : e.data.performance[1].pageLoadTime)),
     domContentLoaded |->
         ExpectedMean(NumbersOf(rows, LAMBDA e : e.data.performance[1].domContentLoaded)),
     firstByte |->
         ExpectedMean(NumbersOf(rows, LAMBDA e : e.data.performance[1].firstByte))]

\* C21: under a hostname filter every section is computed over the events of
\* that hostname: the counts, topErrors (one entry per message of the filtered
\* error events, with their number) and avgPerformance (the means over the
\* filtered performance payloads; null or all 0 when there is none).
C21_HostnameEverywhere ==
    IsReport /\ HostnameGiven(resp.hostname) =>
        LET r == resp.body
            errs == OfType(Filtered, "error")
            msgs == {MessageOf(errs[i]) : i \in 1..Len(errs)}
        IN  /\ r.summary.totalEvents = Len(Filtered)
            /\ r.summary.totalPageviews = Len(OfType(Filtered, "pageview"))
            /\ Len(r.recentEvents) = Min(Len(Filtered), 20)
            /\ Len(r.topErrors) = Min(Cardinality(msgs), 5)
            /\ \A i \in 1..Len(r.topErrors) :
                   \E m \in msgs :
                       /\ r.topErrors[i].message = Prefix(m, 100)
                       /\ r.topErrors[i].count =
                              Cardinality({j \in 1..Len(errs) : MessageOf(errs[j]) = m})
            /\ IF PerformanceEvents = <<>>
               THEN r.avgPerformance \in {<<>>, <<MeansOf(<<>>)>>}
               ELSE r.avgPerformance = <<MeansOf(PerformanceEvents)>>

\* C22: a report describes one state of the store, whatever save_event calls
\* run between its queries: totalPageviews <= totalEvents, the views of
\* topPages sum to at most totalPageviews, and recentEvents has at most
\* totalEvents entries.
C22_OneSnapshot ==
    IsReport =>
        LET r == resp.body
        IN  /\ r.summary.totalPageviews <= r.summary.totalEvents
            /\ SumSeq([i \in 1..Len(r.topPages) |-> r.topPages[i].views])
                   <= r.summary.totalPageviews
            /\ Len(r.recentEvents) <= r.summary.totalEvents

\* the stored events whose column holds the key
EventsOf(column, key) == {i \in 1..Len(events) : events[i][column] = key}

\* C23: when every save_event call has completed, each visitor record counts
\* the stored events of its visitorId, each session record the stored events
\* of its sessionId and, as pageviews, the pageviews among them; every id of a
\* stored event has its record.
C23_DerivedAgree ==
    DOMAIN saving = {} =>
        /\ DOMAIN visitors = {events[i].visitorId : i \in 1..Len(events)}
        /\ DOMAIN sessions = {events[i].sessionId : i \in 1..Len(events)}
        /\ \A v \in DOMAIN visitors :
               visitors[v].totalEvents = Cardinality(EventsOf("visitorId", v))
        /\ \A s \in DOMAIN sessions :
               /\ sessions[s].events = Cardinality(EventsOf("sessionId", s))
               /\ sessions[s].pageviews =
                      Cardinality({i \in EventsOf("sessionId", s) :
                                      events[i].eventType = "pageview"})

\* two calls for one visitor and session have interleaved: the call that
\* created the first event answered after the second event was created
C23_Witness ==
    /\ DOMAIN saving = {}
    /\ Len(events) = 2
    /\ events[1].visitorId = events[2].visitorId
    /\ events[1].eventType = "pageview"
    /\ events[2].eventType = "click"
    /\ resp.kind = "collect"
    /\ resp.body.eventId = 1
    /\ visitors[events[1].visitorId].totalEvents = 2
    /\ sessions[events[1].sessionId].events = 2
    /\ sessions[events[1].sessionId].pageviews = 1

\* a step that serves a POST /collect of a JSON object and answers 500: a
\* store operation of save_event has failed
SaveFailed ==
    /\ metrics'.requests_total = metrics.requests_total + 1
    /\ resp'.kind = "collect"
    /\ resp'.json = "object"
    /\ resp'.status = 500

\* C24: a /collect that fails in save_event leaves the event table, the
\* payload tables, the visitor and session records and events_collected as
\* they were before the request.
C24_AllOrNothing ==
    [][SaveFailed =>
           /\ UNCHANGED <<events, perfRows, errorRows, visitors, sessions>>
           /\ metrics'.events_collected = metrics.events_collected]_vars

====
